---------------------------- MODULE Spec2Model ----------------------------
(***************************************************************************)
(* Serac: incremental, point-in-time file archiver.                        *)
(*                                                                         *)
(* The model covers the index (File and Archived tables), the storage      *)
(* backend, the source filesystem, the scanner, Changeset.commit with      *)
(* File.archive, the State.at query and restore.                           *)
(***************************************************************************)
EXTENDS Integers, Sequences, FiniteSets, TLC

\* ------------------------------------------------------------------ bounds

\* The wall clock (int(time())) runs over 0..MaxTime.
MaxTime == 2

\* Number of steps of a history: `archive` command runs (scan + commit) and
\* changes other programs make to the source tree, in any order.
MaxOps == 3

\* Number of uploads that break.
MaxFailures == 1

\* Number of rows of a File table that is given rather than built by runs.
MaxRows == 3

\* Index or backend accesses followed per process
MaxAccesses == 2

\* Number of check_is_available calls of one process
MaxChecks == 3

\* --------------------------------------------------------------- constants

\* Python's None for an unset id / foreign key (row ids start at 1).
None == 0

\* File._size before any stat.
NoSize == -1

\* File._cached_hash before any hashing, and the poisoned Archived.hash "".
NoHash == ""

ADD == 1

CONTENT == 2

METADATA == 3

DELETE == 4

Actions == {ADD, CONTENT, METADATA, DELETE}

\* ------------------------------------------------------------------- paths

\* Paths are sequences of components; <<>> is "/".
Root == <<>>

Src == <<"src">>

PA == <<"src", "a">>

PB == <<"src", "b">>

FilePaths == {PA, PB}

\* The files other programs change between runs; the rest stay as they were
\* before the first run.
Changing == {PA}

DirPaths == {Root, Src}

\* Every path of the tree, parents before children (the order of a listing).
AllPaths == <<Root, Src, PA, PB>>

\* Path.parent
parent(p) == SubSeq(p, 1, Len(p) - 1)

\* Path.parents: every proper ancestor of p
parents(p) == {SubSeq(p, 1, n) : n \in 0..(Len(p) - 1)}

\* -------------------------------------------------------- file contents

\* The byte strings files hold: two of the same length, one longer.
Contents == {"x", "y", "zz"}

\* stat.st_size of a file holding c
st_size(c) == CASE c = "x" -> 1 [] c = "y" -> 1 [] c = "zz" -> 2

\* sha256(...).hexdigest() of the bytes c (leading digits)
sha256(c) == CASE c = "x" -> "2d711642" [] c = "y" -> "a1fce436" [] c = "zz" -> "4a60bf7d"

\* st_mode of a regular file: 0o100644 and 0o100444
Modes == {33188, 33060}

\* (uid, gid) of the files' owner
Owners == {<<1000, 1000>>}

DefaultMode == CHOOSE m \in Modes : \A n \in Modes : n <= m

DefaultOwner == CHOOSE o \in Owners : \A n \in Owners : n[1] <= o[1]

\* The archive password of the config file
Password == "secret"

\* ------------------------------------------------------------------- state

VARIABLES
    clock,      \* int(time()) as the last scan read it
    disk,       \* source filesystem: FilePaths -> file or absent
    files,      \* File table: sequence of rows, id = position
    archiveds,  \* Archived table: sequence of rows, id = position
    backend,    \* storage backend: archive_id -> stored object
    pc,         \* position of the archive command
    config,     \* [includes, excludes] of the running archive command
    last_state, \* State.at(now) as read at the start of the scan
    changeset,  \* the Changeset scan returned
    done,       \* <<mapping, path>> entries commit has dealt with
    cur,        \* the File that File.archive is working on
    runs,       \* archive commands started
    fsops,      \* changes made to the source tree
    failures,   \* uploads that broke
    dest,       \* filesystem under the restore destination
    restored,   \* the restore: its arguments and what it returned
    query,      \* the last State.at call: its timestamp and what it returned
    retrieved,  \* the last storage.retrieve call made on its own, and its outcome
    raised,     \* what File.archive raised when called on a File of the index
    s3,         \* the S3 bucket: its objects' storage class and restore state,
                \* the memo of check_is_available, the thaw requests received
    checked,    \* the check_is_available calls made on their own: the last
                \* one's outcome
    lock,       \* the processes that hold the flock of the config file
    proc        \* the serac processes started on the config file

vars == <<clock, disk, files, archiveds, backend, pc, config, last_state,
          changeset, done, cur, runs, fsops, failures, dest, restored, query,
          retrieved, raised, s3, checked, lock, proc>>

\* What the S3 calls write
s3_vars == <<s3, checked>>

\* What the processes started on one config file write
cli_vars == <<lock, proc>>

\* What restore and the queries write
restore_vars == <<dest, restored, query, retrieved, raised, s3_vars, cli_vars>>

\* ------------------------------------------------------------------ dicts

EmptyDict == [x \in {} |-> x]

\* d[k] = v
Put(d, k, v) == [x \in (DOMAIN d) \cup {k} |-> IF x = k THEN v ELSE d[x]]

\* d.pop(k, None), the remaining dict
Drop(d, k) == [x \in (DOMAIN d) \ {k} |-> d[x]]

Range(s) == {s[i] : i \in DOMAIN s}

\* ------------------------------------------------------------- filesystem

Absent == [kind |-> "absent"]

DiskFile(c, t, o, m) ==
    [kind |-> "file", content |-> c, st_mtime |-> t,
     st_uid |-> o[1], st_gid |-> o[2], st_mode |-> m]

\* A named pipe, socket or device node: it exists and is neither a directory
\* nor a regular file
Fifo == [kind |-> "fifo"]

\* A symlink whose target is gone, or an entry unlinked between the listing
\* and the stat: it is listed, and exists() is False
Dangling == [kind |-> "dangling"]

\* Path.is_dir
is_dir(p) == p \in DirPaths

\* Path.is_file
is_file(p) == p \in FilePaths /\ disk[p].kind = "file"

\* Path.exists
path_exists(p) == is_dir(p) \/ is_file(p) \/ (p \in FilePaths /\ disk[p] = Fifo)

\* os.path.lexists: the directory of p has an entry for it
lexists(p) == is_dir(p) \/ (p \in FilePaths /\ disk[p] # Absent)

\* Path.iterdir: the entries of directory p
iterdir(p) == SelectSeq(AllPaths, LAMBDA c : c # Root /\ parent(c) = p /\ lexists(c))

\* glob.iglob of a literal include: the path when it has an entry
iglob(path_str) == IF lexists(path_str) THEN <<path_str>> ELSE <<>>

\* fnmatch.fnmatchcase(str(path), pattern) for the patterns of Configs:
\* a literal path, or a directory followed by "*" (which also matches "/").
fnmatchcase(path, pattern) ==
    IF pattern # <<>> /\ pattern[Len(pattern)] = "*"
    THEN /\ Len(path) >= Len(pattern)
         /\ SubSeq(path, 1, Len(pattern) - 1) = SubSeq(pattern, 1, Len(pattern) - 1)
    ELSE path = pattern

is_excluded(path, excludes) ==
    \E i \in 1..Len(excludes) : fnmatchcase(path, excludes[i])

\* The [source] sections a config file may hold: one include, an include
\* inside another, one include with an exclude
Configs ==
    {[includes |-> <<Src>>, excludes |-> <<>>],
     [includes |-> <<Src, PA>>, excludes |-> <<>>],
     [includes |-> <<Src>>, excludes |-> <<PB>>]}

\* ------------------------------------------------------------ File objects

\* File(path=path): a new, unsaved File
NewFile(path) ==
    [id |-> None, path |-> path, archived |-> None, action |-> None,
     last_modified |-> None, owner |-> None, group |-> None, permissions |-> None,
     size_ |-> NoSize, cached_hash |-> NoHash]

\* A File loaded from its row of the File table
FromRow(row) ==
    [id |-> row.id, path |-> row.path, archived |-> row.archived, action |-> row.action,
     last_modified |-> row.last_modified, owner |-> row.owner, group |-> row.group,
     permissions |-> row.permissions, size_ |-> NoSize, cached_hash |-> NoHash]

\* The row File.save() inserts for the unsaved File f
ToRow(f, id) ==
    [id |-> id, path |-> f.path, archived |-> f.archived, action |-> f.action,
     last_modified |-> f.last_modified, owner |-> f.owner, group |-> f.group,
     permissions |-> f.permissions]

\* File.refresh_metadata_from_disk: the ValueError it raises (models.py
\* 135-138), "no" when the path is a regular file
refresh_raises(path) ==
    IF ~path_exists(path) THEN "has disappeared"
    ELSE IF ~is_file(path) THEN "is not a file"
    ELSE "no"

\* File.refresh_metadata_from_disk of a regular file (models.py 139-144)
refresh_metadata_from_disk(f) ==
    LET stat == disk[f.path]
    IN  [f EXCEPT !.last_modified = stat.st_mtime,
                  !.size_ = st_size(stat.content),
                  !.owner = stat.st_uid,
                  !.group = stat.st_gid,
                  !.permissions = stat.st_mode]

\* File.size
size(f) ==
    IF f.size_ = NoSize
    THEN IF f.archived # None THEN archiveds[f.archived].size ELSE NoSize
    ELSE f.size_

\* File.__eq__ over the four columns only, leaving out the size
File_eq_without_size(a, b) ==
    /\ a.path = b.path
    /\ a.last_modified = b.last_modified
    /\ a.owner = b.owner
    /\ a.group = b.group
    /\ a.permissions = b.permissions

\* File.__eq__: path and the _meta_fields
File_eq(a, b) ==
    /\ a.path = b.path
    /\ a.last_modified = b.last_modified
    /\ a.owner = b.owner
    /\ a.group = b.group
    /\ a.permissions = b.permissions
    /\ size(a) = size(b)

\* File.calculate_hash: the memoized hash, else the sha256 of the bytes on disk
calculate_hash(f) ==
    IF f.cached_hash = NoHash THEN sha256(disk[f.path].content) ELSE f.cached_hash

\* File.clone that copies the id as well
clone_with_id(f, action) ==
    [id |-> f.id, path |-> f.path, archived |-> f.archived, action |-> action,
     last_modified |-> f.last_modified, owner |-> f.owner, group |-> f.group,
     permissions |-> f.permissions, size_ |-> NoSize, cached_hash |-> NoHash]

\* File.clone(action=...)
clone(f, action) ==
    [id |-> None, path |-> f.path, archived |-> f.archived, action |-> action,
     last_modified |-> f.last_modified, owner |-> f.owner, group |-> f.group,
     permissions |-> f.permissions, size_ |-> NoSize, cached_hash |-> NoHash]

\* ------------------------------------------------------------------ State.at

\* The rows MAX(last_modified) may select at timestamp T, over all groups of
\* GROUP BY path: those with last_modified <= T that no other such row of
\* their path is later than. SQLite takes the bare columns of a group from
\* one of them.
Latest(rows, T) ==
    LET upto == {r \in rows : r.last_modified <= T}
    IN  {r \in upto : \A q \in upto : q.path = r.path => q.last_modified <= r.last_modified}

\* The ways of taking one row of `latest` for each of its paths
Picks(latest) ==
    LET groups == {r.path : r \in latest}
    IN  {f \in [groups -> latest] : \A p \in groups : f[p].path = p}

\* State.at without its HAVING clause: the row picked for a group is returned
\* whatever its action
State_at_without_having(rows, T) ==
    {[p \in DOMAIN f |-> FromRow(f[p])] : f \in Picks(Latest(rows, T))}

\* State.at with the DELETE rows filtered in WHERE, before the grouping: a
\* path whose latest row is a DELETE falls back to its latest other row
State_at_where_not_deleted(rows, T) ==
    {[p \in DOMAIN f |-> FromRow(f[p])] :
        f \in Picks(Latest({r \in rows : r.action # DELETE}, T))}

\* The results State.at(timestamp) may return for the File table `rows`:
\* one row per group, the group dropped when that row is a DELETE.
State_at(rows, T) ==
    {[p \in {q \in DOMAIN f : f[q].action # DELETE} |-> FromRow(f[p])] :
        f \in Picks(Latest(rows, T))}

\* -------------------------------------------------------------------- scan

EmptyChangeset ==
    [added |-> EmptyDict, content |-> EmptyDict,
     metadata |-> EmptyDict, deleted |-> EmptyDict]

\* The diff of one regular file against last_state (index.py 165-189)
classify(path, state, cs) ==
    LET file == refresh_metadata_from_disk(NewFile(path))
    IN  IF path \notin DOMAIN state
        THEN [cs EXCEPT !.added = Put(@, path, [file EXCEPT !.action = ADD])]
        ELSE LET last_file == state[path]
                 file_hash == calculate_hash(file)
                 hashed == [file EXCEPT !.cached_hash = file_hash]
             IN  IF File_eq(file, last_file)
                 THEN cs
                 ELSE IF file_hash # archiveds[last_file.archived].hash
                      THEN [cs EXCEPT !.content =
                                Put(@, path, [hashed EXCEPT !.action = CONTENT])]
                      ELSE [cs EXCEPT !.metadata =
                                Put(@, path, [hashed EXCEPT !.action = METADATA,
                                                            !.archived = last_file.archived])]

\* The walk that tests the exclude patterns on the includes only, not on the
\* paths it reaches by descending
RECURSIVE walk_excludes_at_top(_, _, _, _)
walk_excludes_at_top(queue, state, cs, excludes) ==
    IF queue = <<>>
    THEN [state |-> state, cs |-> cs, raised |-> "no"]
    ELSE LET path == Head(queue)
             rest == Tail(queue)
         IN  IF excludes # <<>> /\ is_excluded(path, excludes)
             THEN walk_excludes_at_top(rest, state, cs, excludes)
             ELSE IF is_dir(path)
                  THEN walk_excludes_at_top(rest \o iterdir(path), state, cs, <<>>)
                  ELSE IF refresh_raises(path) # "no"
                       THEN [state |-> state, cs |-> cs, raised |-> refresh_raises(path)]
                       ELSE walk_excludes_at_top(rest, Drop(state, path),
                                                 classify(path, state, cs), excludes)

\* The walk that takes an excluded path out of last_state as it skips it
RECURSIVE walk_pops_excluded(_, _, _, _)
walk_pops_excluded(queue, state, cs, excludes) ==
    IF queue = <<>>
    THEN [state |-> state, cs |-> cs, raised |-> "no"]
    ELSE LET path == Head(queue)
             rest == Tail(queue)
         IN  IF excludes # <<>> /\ is_excluded(path, excludes)
             THEN walk_pops_excluded(rest, Drop(state, path), cs, excludes)
             ELSE IF is_dir(path)
                  THEN walk_pops_excluded(rest \o iterdir(path), state, cs, excludes)
                  ELSE IF refresh_raises(path) # "no"
                       THEN [state |-> state, cs |-> cs, raised |-> refresh_raises(path)]
                       ELSE walk_pops_excluded(rest, Drop(state, path),
                                               classify(path, state, cs), excludes)

\* The walk over include_paths (index.py 148-189): last_state and the
\* changeset when it ends, and the error of refresh_metadata_from_disk that
\* ended it, which scan does not catch
RECURSIVE walk(_, _, _, _)
walk(queue, state, cs, excludes) ==
    IF queue = <<>>
    THEN [state |-> state, cs |-> cs, raised |-> "no"]
    ELSE LET path == Head(queue)
             rest == Tail(queue)
         IN  IF excludes # <<>> /\ is_excluded(path, excludes)
             THEN walk(rest, state, cs, excludes)
             ELSE IF is_dir(path)
                  THEN walk(rest \o iterdir(path), state, cs, excludes)
                  ELSE IF refresh_raises(path) # "no"
                       THEN [state |-> state, cs |-> cs, raised |-> refresh_raises(path)]
                       ELSE walk(rest, Drop(state, path), classify(path, state, cs),
                                 excludes)

RECURSIVE include_paths(_)
include_paths(includes) ==
    IF includes = <<>> THEN <<>>
    ELSE iglob(Head(includes)) \o include_paths(Tail(includes))

\* scan after the walk r: what is left of last_state is deleted (index.py
\* 191-195)
scan_returns(r) ==
    [r.cs EXCEPT !.deleted = [p \in DOMAIN r.state |-> clone(r.state[p], DELETE)]]

\* scan(includes, excludes) given the State.at(now) it read
scan(includes, excludes, state) ==
    scan_returns(walk(include_paths(includes), state, EmptyChangeset, excludes))

\* ----------------------------------------------------------------- restore

\* Pattern(pattern): None and "" give the empty pattern, whose path is "."
Pattern(pattern) ==
    IF pattern = <<"">>
    THEN [str |-> "", path |-> <<".">>]
    ELSE [str |-> "set", path |-> pattern]

\* Pattern.__bool__
Pattern_bool(pattern) == pattern.str # ""

\* Pattern.match that takes the pattern for a file, never for a directory
Pattern_match_file_only(pattern, path) ==
    \/ pattern.str = ""
    \/ pattern.path = path

\* Pattern.match
Pattern_match(pattern, path) ==
    \/ pattern.str = ""
    \/ pattern.path = path
    \/ pattern.path \in parents(path)

\* search(timestamp, pattern) given the State.at(timestamp) it read
search(pattern, state) ==
    IF ~Pattern_bool(pattern)
    THEN state
    ELSE [p \in {q \in DOMAIN state : Pattern_match(pattern, q)} |-> state[p]]

\* The destination tree: its directories and its files with their bytes
EmptyDest == [dirs |-> {}, files |-> EmptyDict]

\* destination_path of the restore command
Dest == <<"out">>

dest_is_dir(d, p) == p = Root \/ p \in d.dirs

dest_exists(d, p) == dest_is_dir(d, p) \/ p \in DOMAIN d.files

\* Every ancestor of p, and p itself
prefixes(p) == {SubSeq(p, 1, n) : n \in 0..Len(p)}

\* Path.mkdir(parents=True, exist_ok=True) raises when a file is in the way
mkdir_fails(d, p) == \E q \in prefixes(p) : q \in DOMAIN d.files

mkdir(d, p) == [d EXCEPT !.dirs = @ \cup (prefixes(p) \ {Root})]

\* crypto.decrypt: the bytes, when the password is the one they were stored under
decrypt(data, password) == IF data.key = password THEN data.plain ELSE "WrongPassword"

\* Storage.retrieve that reads the object of the newest Archived row, whatever
\* archive_id it is given
retrieve_newest_object(d, local_path, archive_id, password) ==
    IF dest_exists(d, local_path)
    THEN [dest |-> d, status |-> "file exists", calls |-> <<>>]
    ELSE IF ToString(Len(archiveds)) \notin DOMAIN backend
         THEN [dest |-> d, status |-> "crash", calls |-> <<"get_size">>]
         ELSE IF ~dest_is_dir(d, parent(local_path))
              THEN [dest |-> d, status |-> "crash", calls |-> <<"get_size", "read">>]
              ELSE LET object == backend[ToString(Len(archiveds))]
                       plain == decrypt(object.data, password)
                   IN  IF object.complete /\ plain # "WrongPassword"
                       THEN [dest |-> [d EXCEPT !.files = Put(@, local_path, plain)],
                             status |-> "True", calls |-> <<"get_size", "read">>]
                       ELSE [dest |-> [d EXCEPT !.files = Put(@, local_path, "")],
                             status |-> "crash", calls |-> <<"get_size", "read">>]

\* Storage.retrieve that does not look at local_path before it reads the
\* backend and opens local_path for writing
retrieve_over_existing(d, local_path, archive_id, password) ==
    IF archive_id \notin DOMAIN backend
    THEN [dest |-> d, status |-> "crash", calls |-> <<"get_size">>]
    ELSE IF ~dest_is_dir(d, parent(local_path)) \/ dest_is_dir(d, local_path)
         THEN [dest |-> d, status |-> "crash", calls |-> <<"get_size", "read">>]
         ELSE LET object == backend[archive_id]
                  plain == decrypt(object.data, password)
              IN  IF object.complete /\ plain # "WrongPassword"
                  THEN [dest |-> [d EXCEPT !.files = Put(@, local_path, plain)],
                        status |-> "True", calls |-> <<"get_size", "read">>]
                  ELSE [dest |-> [d EXCEPT !.files = Put(@, local_path, "")],
                        status |-> "crash", calls |-> <<"get_size", "read">>]

\* Storage.retrieve(local_path, archive_id, password) on the Local backend,
\* with the backend calls it made, in order. "file exists" is FileExists, the
\* SeracException of an existing local_path; "crash" is any other exception
\* (no such object: get_size raises; no directory to open local_path in; a
\* truncated object or a wrong password: decrypt raises after local_path was
\* opened for writing).
retrieve(d, local_path, archive_id, password) ==
    IF dest_exists(d, local_path)
    THEN [dest |-> d, status |-> "file exists", calls |-> <<>>]
    ELSE IF archive_id \notin DOMAIN backend
         THEN [dest |-> d, status |-> "crash", calls |-> <<"get_size">>]
         ELSE IF ~dest_is_dir(d, parent(local_path))
              THEN [dest |-> d, status |-> "crash", calls |-> <<"get_size", "read">>]
              ELSE LET object == backend[archive_id]
                       plain == decrypt(object.data, password)
                   IN  IF object.complete /\ plain # "WrongPassword"
                       THEN [dest |-> [d EXCEPT !.files = Put(@, local_path, plain)],
                             status |-> "True", calls |-> <<"get_size", "read">>]
                       ELSE [dest |-> [d EXCEPT !.files = Put(@, local_path, "")],
                             status |-> "crash", calls |-> <<"get_size", "read">>]

\* RESTORE_DAYS: the days a thawed object stays readable
RESTORE_DAYS == 1

\* An argument that a method requires and a call does not pass
Missing == "missing"

\* The storage classes check_is_available takes for frozen
Glacier == {"GLACIER", "DEEP_ARCHIVE"}

\* check_is_available under a memo that also keeps what a call raised
check_is_available_memoizes_failure(bucket, archive_id) ==
    IF archive_id = Missing
    THEN [raised |-> "TypeError", cache |-> bucket.cache]
    ELSE IF archive_id \in DOMAIN bucket.cache
    THEN [raised |-> bucket.cache[archive_id], cache |-> bucket.cache]
    ELSE IF archive_id \notin DOMAIN bucket.objects
    THEN [raised |-> "ClientError", cache |-> bucket.cache]
    ELSE LET obj == bucket.objects[archive_id]
             outcome == IF obj.storage_class \notin Glacier THEN "no"
                        ELSE IF obj.restore = "None" THEN "frozen"
                        ELSE IF obj.restore = "ongoing-request=true"
                        THEN "retrieve in progress"
                        ELSE "no"
         IN  [raised |-> outcome, cache |-> Put(bucket.cache, archive_id, outcome)]

\* S3.check_is_available(archive_id) under lru_cache, on the bucket and memo
\* given: what it raises ("no" when it returns True) and the memo afterwards.
\* lru_cache keeps the value a call returned, under its arguments, and nothing
\* for a call that raised. "frozen" is ObjectFrozen, "retrieve in progress" is
\* ObjectRetrieving; a call without archive_id raises TypeError, a key the
\* bucket does not hold raises botocore's ClientError.
check_is_available(bucket, archive_id) ==
    IF archive_id = Missing
    THEN [raised |-> "TypeError", cache |-> bucket.cache]
    ELSE IF archive_id \in DOMAIN bucket.cache
    THEN [raised |-> bucket.cache[archive_id], cache |-> bucket.cache]
    ELSE IF archive_id \notin DOMAIN bucket.objects
    THEN [raised |-> "ClientError", cache |-> bucket.cache]
    ELSE LET obj == bucket.objects[archive_id]
         IN  IF obj.storage_class \notin Glacier
             THEN [raised |-> "no", cache |-> Put(bucket.cache, archive_id, "no")]
             ELSE IF obj.restore = "None"
             THEN [raised |-> "frozen", cache |-> bucket.cache]
             ELSE IF obj.restore = "ongoing-request=true"
             THEN [raised |-> "retrieve in progress", cache |-> bucket.cache]
             ELSE IF obj.restore = "ongoing-request=false"
             THEN [raised |-> "no", cache |-> Put(bucket.cache, archive_id, "no")]
             ELSE [raised |-> "ValueError", cache |-> bucket.cache]

\* S3.start_s3_restore(archive_id): the restore request the bucket receives
start_s3_restore(bucket, archive_id) ==
    [bucket EXCEPT !.thaws = @ \cup {[Bucket |-> "bucket-name", Key |-> archive_id,
                                      Days |-> RESTORE_DAYS]}]

\* S3.retrieve (s3.py 102-123), with the calls it made and the bucket and memo
\* it leaves. After the test of local_path it calls self.check_is_available()
\* without the archive_id the method requires.
S3_retrieve(d, local_path, archive_id, password) ==
    IF dest_exists(d, local_path)
    THEN [dest |-> d, status |-> "file exists", calls |-> <<>>, s3 |-> s3]
    ELSE LET available == check_is_available(s3, Missing)
             checked_s3 == [s3 EXCEPT !.cache = available.cache]
         IN  IF available.raised = "frozen"
             THEN [dest |-> d, status |-> "frozen",
                   calls |-> <<"check_is_available", "start_s3_restore">>,
                   s3 |-> start_s3_restore(checked_s3, archive_id)]
             ELSE IF available.raised = "retrieve in progress"
             THEN [dest |-> d, status |-> "retrieve in progress",
                   calls |-> <<"check_is_available">>, s3 |-> checked_s3]
             ELSE IF available.raised # "no"
             THEN [dest |-> d, status |-> "crash",
                   calls |-> <<"check_is_available">>, s3 |-> checked_s3]
             ELSE LET r == retrieve(d, local_path, archive_id, password)
                  IN  [dest |-> r.dest, status |-> r.status,
                       calls |-> <<"check_is_available">> \o r.calls,
                       s3 |-> checked_s3]

\* Path.relative_to
relative_to(path, base) == SubSeq(path, Len(base) + 1, Len(path))

\* The target taken relative to the root whether or not a pattern is given
target_path_from_root(path, pattern, destination_path) ==
    destination_path \o relative_to(path, Root)

\* The target restore writes a path of the state to (index.py 257-260)
target_path(path, pattern, destination_path) ==
    IF Pattern_bool(pattern)
    THEN destination_path \o relative_to(path, pattern.path)
    ELSE destination_path \o relative_to(path, Root)

\* The loop of restore over state.items() (index.py 254-270), with the
\* password of the archive_config
RECURSIVE restore_loop(_, _, _, _, _, _)
restore_loop(paths, state, pattern, destination_path, password, acc) ==
    IF paths = <<>> \/ acc.raised # "no"
    THEN acc
    ELSE LET path == Head(paths)
             target == target_path(path, pattern, destination_path)
         IN  IF path \notin DOMAIN state
             THEN restore_loop(Tail(paths), state, pattern, destination_path,
                               password, acc)
             ELSE IF mkdir_fails(acc.dest, parent(target))
                  THEN [acc EXCEPT !.raised = "crash"]
                  ELSE LET r == retrieve(mkdir(acc.dest, parent(target)), target,
                                         ToString(state[path].archived), password)
                       IN  restore_loop(Tail(paths), state, pattern, destination_path,
                              password,
                              [dest |-> r.dest,
                               restored |-> IF r.status = "crash" THEN acc.restored
                                            ELSE Put(acc.restored, path, r.status),
                               raised |-> IF r.status = "crash" THEN "crash" ELSE "no"])

\* restore that returns the empty result map whatever missing_ok is
restore_missing_always_ok(d, state_at, destination_path, pattern, missing_ok, password) ==
    LET state == search(pattern, state_at)
        single == Pattern_bool(pattern) /\ pattern.path \in DOMAIN state
        destination == IF single /\ dest_is_dir(d, destination_path)
                       THEN destination_path \o <<pattern.path[Len(pattern.path)]>>
                       ELSE destination_path
    IN  restore_loop(AllPaths, state, pattern, destination, password,
                     [dest |-> d, restored |-> EmptyDict, raised |-> "no"])

\* restore(archive_config, timestamp, destination_path, pattern, missing_ok)
\* given the State.at(timestamp) that search read and the password of the
\* archive_config
restore(d, state_at, destination_path, pattern, missing_ok, password) ==
    LET state == search(pattern, state_at)
        single == Pattern_bool(pattern) /\ pattern.path \in DOMAIN state
        destination == IF single /\ dest_is_dir(d, destination_path)
                       THEN destination_path \o <<pattern.path[Len(pattern.path)]>>
                       ELSE destination_path
        r == restore_loop(AllPaths, state, pattern, destination, password,
                          [dest |-> d, restored |-> EmptyDict, raised |-> "no"])
    IN  IF r.raised = "no" /\ ~missing_ok /\ DOMAIN r.restored = {}
        THEN [r EXCEPT !.raised = IF Pattern_bool(pattern) THEN "not found" ELSE "archive empty"]
        ELSE r

\* What the destination may hold before the restore: nothing, the
\* directory, or the directory with a file in it
NoDest == EmptyDest

DestDir == [dirs |-> {Dest}, files |-> EmptyDict]

DestDirWithFile == [dirs |-> {Dest}, files |-> [p \in {Dest \o <<"a">>} |-> "old"]]

\* The restore calls: the pattern (none, a file, a directory, a path never
\* archived), the destination before the call, missing_ok, and the password
\* of the archive_config, which is the one the archive ran with or another
RestoreArgs ==
    {[pattern |-> <<"">>, before |-> NoDest, missing_ok |-> FALSE, password |-> Password],
     [pattern |-> PA, before |-> NoDest, missing_ok |-> FALSE, password |-> Password],
     [pattern |-> PA, before |-> DestDir, missing_ok |-> FALSE, password |-> Password],
     [pattern |-> PA, before |-> DestDirWithFile, missing_ok |-> FALSE, password |-> Password],
     [pattern |-> Src, before |-> DestDirWithFile, missing_ok |-> FALSE, password |-> Password],
     [pattern |-> Src, before |-> DestDir, missing_ok |-> FALSE, password |-> "wrong"],
     [pattern |-> <<"src", "c">>, before |-> DestDir, missing_ok |-> FALSE, password |-> Password],
     [pattern |-> <<"src", "c">>, before |-> DestDir, missing_ok |-> TRUE, password |-> Password]}

NoRestore == [raised |-> "never"]

NoQuery == [timestamp |-> -1]

NoRetrieve == [status |-> "never"]

\* An S3 bucket with no object, in a process that has checked nothing
NoS3 == [objects |-> EmptyDict, cache |-> EmptyDict, thaws |-> {}]

\* No check_is_available call made yet. `failed` gathers the archive_ids whose
\* check raised ObjectFrozen or ObjectRetrieving.
NoCheck == [archive_id |-> "", raised |-> "never", count |-> 0, failed |-> {}]

\* The processes that may be started on the config file, none started yet
Procs == {1, 2}

NoProc == [pc |-> "out", command |-> "", accesses |-> 0]

NoProcs == [p \in Procs |-> NoProc]

\* ------------------------------------------------------------------ actions

Rows == Range(files)

\* No archive command is running
NoConfig == [includes |-> <<>>, excludes |-> <<>>]

\* The files the tree may hold before the first run, written in second 0
InitialFiles == {DiskFile(c, 0, DefaultOwner, DefaultMode) : c \in {"x"}}

Init ==
    /\ clock = 0
    /\ disk \in {d \in [FilePaths -> {Absent} \cup InitialFiles] : d[PA] # Absent}
    /\ files = <<>>
    /\ archiveds = <<>>
    /\ backend = EmptyDict
    /\ pc = "idle"
    /\ config = NoConfig
    /\ last_state = EmptyDict
    /\ changeset = EmptyChangeset
    /\ done = {}
    /\ cur = None
    /\ runs = 0
    /\ fsops = 0
    /\ failures = 0
    /\ dest = EmptyDest
    /\ restored = NoRestore
    /\ query = NoQuery
    /\ retrieved = NoRetrieve
    /\ raised = "no"
    /\ s3 = NoS3
    /\ checked = NoCheck
    /\ lock = {}
    /\ proc = NoProcs

\* archive command: scan() (commands.py 106-108) under one of the configs. It
\* reads int(time()), which is any second not before the one the previous run
\* read. An error of refresh_metadata_from_disk leaves scan and the command.
ScanOf(configs) ==
    /\ pc = "idle"
    /\ restored = NoRestore
    /\ runs + fsops < MaxOps
    /\ \E cfg \in configs, now \in clock..MaxTime :
          \E state \in State_at(Rows, now) :
              LET r == walk(include_paths(cfg.includes), state, EmptyChangeset,
                            cfg.excludes)
              IN  /\ clock' = now
                  /\ IF r.raised = "no"
                     THEN /\ config' = cfg
                          /\ last_state' = state
                          /\ changeset' = scan_returns(r)
                          /\ pc' = "commit"
                          /\ UNCHANGED raised
                     ELSE /\ raised' = r.raised
                          /\ UNCHANGED <<config, last_state, changeset, pc>>
    /\ done' = {}
    /\ runs' = runs + 1
    /\ UNCHANGED <<disk, files, archiveds, backend, cur, fsops, failures, dest,
                   restored, query, retrieved, s3_vars, cli_vars>>

\* archive command on the tree of directories and regular files
Scan == ScanOf(Configs)

\* The entries of the chain commit is iterating that it has not dealt with
pending(kinds) ==
    {e \in UNION {{<<k, p>> : p \in DOMAIN changeset[k]} : k \in kinds} : e \notin done}

\* The position of path p in a listing of the tree
position(p) == CHOOSE i \in 1..Len(AllPaths) : AllPaths[i] = p

\* dict.values() yields in insertion order, which is the order of the walk
first_of(entries) ==
    {e \in entries : \A o \in entries : position(e[2]) <= position(o[2])}

\* chain(a.values(), b.values()): the entries of a come before those of b
next_of(first, second) ==
    IF pending({first}) # {} THEN first_of(pending({first})) ELSE first_of(pending({second}))

\* The four mappings of a Changeset
Mappings == {"added", "content", "metadata", "deleted"}

\* commit has dealt with every entry of the changeset and has not returned yet
CommitComplete == pc = "commit" /\ pending(Mappings) = {}

\* Changeset.commit whose file.save() overwrites the newest row of the path
\* instead of inserting one
CommitUpdate_overwrites_row ==
    /\ pc = "commit"
    /\ \E e \in next_of("metadata", "deleted") :
          LET old == {i \in DOMAIN files : files[i].path = e[2]}
              id == IF old = {} THEN Len(files) + 1
                    ELSE CHOOSE i \in old : \A j \in old : j <= i
          IN  /\ files' = IF old = {}
                          THEN Append(files, ToRow(changeset[e[1]][e[2]], id))
                          ELSE [files EXCEPT ![id] = ToRow(changeset[e[1]][e[2]], id)]
              /\ done' = done \cup {e}
    /\ UNCHANGED <<clock, disk, archiveds, backend, pc, config, last_state,
                   changeset, cur, runs, fsops, failures, restore_vars>>

\* Changeset.commit, first loop: file.save() of a metadata or deleted entry
CommitUpdate ==
    /\ pc = "commit"
    /\ \E e \in next_of("metadata", "deleted") :
          /\ files' = Append(files, ToRow(changeset[e[1]][e[2]], Len(files) + 1))
          /\ done' = done \cup {e}
    /\ UNCHANGED <<clock, disk, archiveds, backend, pc, config, last_state,
                   changeset, cur, runs, fsops, failures, restore_vars>>

\* File.archive that does not look at the id of the File
archive_create_whatever_id(file) ==
    [raised |-> "no",
     archiveds |-> Append(archiveds,
                          [hash |-> IF is_file(file.path) THEN calculate_hash(file) ELSE NoHash,
                           size |-> size(file)])]

\* File.archive up to Archived.create (models.py 233-238): what it raises and
\* the Archived table it leaves
archive_create(file) ==
    IF file.id # None
    THEN [raised |-> "Cannot archive a file twice", archiveds |-> archiveds]
    ELSE [raised |-> "no",
          archiveds |-> Append(archiveds,
                               [hash |-> calculate_hash(file), size |-> size(file)])]

\* commit that starts its second loop while entries of the first are waiting
ArchiveCreate_before_updates ==
    /\ pc = "commit"
    /\ \E e \in first_of(pending({"added"})) \cup
                   {o \in first_of(pending({"content"})) : pending({"added"}) = {}} :
          LET file == changeset[e[1]][e[2]]
              r == archive_create(file)
          IN  /\ r.raised = "no"
              /\ archiveds' = r.archiveds
              /\ cur' = [kind |-> e[1], path |-> e[2], archived |-> Len(archiveds) + 1]
    /\ pc' = "store"
    /\ UNCHANGED <<clock, disk, files, backend, config, last_state, changeset,
                   done, runs, fsops, failures, restore_vars>>

\* File.archive of an entry of the changeset, up to Archived.create
ArchiveCreate ==
    /\ pc = "commit"
    /\ pending({"metadata", "deleted"}) = {}
    /\ \E e \in next_of("added", "content") :
          LET file == changeset[e[1]][e[2]]
              r == archive_create(file)
          IN  /\ r.raised = "no"
              /\ archiveds' = r.archiveds
              /\ cur' = [kind |-> e[1], path |-> e[2], archived |-> Len(archiveds) + 1]
    /\ pc' = "store"
    /\ UNCHANGED <<clock, disk, files, backend, config, last_state, changeset,
                   done, runs, fsops, failures, restore_vars>>

\* crypto.encrypt that drops the password and encrypts under the empty one
encrypt_without_password(plain, password) == [plain |-> plain, key |-> ""]

\* crypto.encrypt of the bytes under the password
encrypt(plain, password) == [plain |-> plain, key |-> password]

\* Storage.store: the object the backend holds afterwards. An upload that
\* breaks leaves no object or a truncated one.
store(local_path, archive_id, password, ok, partial) ==
    IF ok
    THEN Put(backend, archive_id,
             [complete |-> TRUE, data |-> encrypt(disk[local_path].content, password)])
    ELSE IF partial
         THEN Put(backend, archive_id,
                  [complete |-> FALSE, data |-> encrypt(disk[local_path].content, password)])
         ELSE backend

\* File.archive: storage.store went through (models.py 240-246)
ArchiveStoreOk ==
    /\ pc = "store"
    /\ is_file(cur.path)
    /\ backend' = store(cur.path, ToString(cur.archived), Password, TRUE, FALSE)
    /\ pc' = "save"
    /\ UNCHANGED <<clock, disk, files, archiveds, config, last_state, changeset,
                   done, cur, runs, fsops, failures, restore_vars>>

\* File.archive that deletes the Archived row of a broken upload
ArchiveStoreFail_deletes_row ==
    /\ pc = "store"
    /\ failures < MaxFailures
    /\ failures' = failures + 1
    /\ \E partial \in BOOLEAN :
          backend' = store(cur.path, ToString(cur.archived), Password, FALSE,
                           partial /\ is_file(cur.path))
    /\ archiveds' = SubSeq(archiveds, 1, cur.archived - 1)
    /\ pc' = "idle"
    /\ cur' = None
    /\ changeset' = EmptyChangeset
    /\ last_state' = EmptyDict
    /\ config' = NoConfig
    /\ done' = {}
    /\ UNCHANGED <<clock, disk, files, runs, fsops, restore_vars>>

\* File.archive that nulls the hash of a broken upload and goes on to link
\* the Archived row to the File and save it
ArchiveStoreFail_then_save ==
    /\ pc = "store"
    /\ failures < MaxFailures
    /\ failures' = failures + 1
    /\ \E partial \in BOOLEAN :
          backend' = store(cur.path, ToString(cur.archived), Password, FALSE,
                           partial /\ is_file(cur.path))
    /\ archiveds' = [archiveds EXCEPT ![cur.archived].hash = NoHash]
    /\ pc' = "save"
    /\ UNCHANGED <<clock, disk, files, config, last_state, changeset, done, cur,
                   runs, fsops, restore_vars>>

\* File.archive: storage.store raised; the hash is nulled and the ValueError
\* leaves commit and the command (models.py 248-252)
ArchiveStoreFail ==
    /\ pc = "store"
    /\ failures < MaxFailures
    /\ failures' = failures + 1
    /\ \E partial \in BOOLEAN :
          backend' = store(cur.path, ToString(cur.archived), Password, FALSE,
                           partial /\ is_file(cur.path))
    /\ archiveds' = [archiveds EXCEPT ![cur.archived].hash = NoHash]
    /\ pc' = "idle"
    /\ cur' = None
    /\ changeset' = EmptyChangeset
    /\ last_state' = EmptyDict
    /\ config' = NoConfig
    /\ done' = {}
    /\ UNCHANGED <<clock, disk, files, runs, fsops, restore_vars>>

\* File.archive: self.archived = archived; self.save() (models.py 254-257)
ArchiveSave ==
    /\ pc = "save"
    /\ LET file == [changeset[cur.kind][cur.path] EXCEPT !.archived = cur.archived]
       IN  files' = Append(files, ToRow(file, Len(files) + 1))
    /\ done' = done \cup {<<cur.kind, cur.path>>}
    /\ cur' = None
    /\ pc' = "commit"
    /\ UNCHANGED <<clock, disk, archiveds, backend, config, last_state, changeset,
                   runs, fsops, failures, restore_vars>>

\* commit has returned; database.disconnect() (commands.py 109-110)
CommitDone ==
    /\ pc = "commit"
    /\ pending({"metadata", "deleted", "added", "content"}) = {}
    /\ pc' = "idle"
    /\ changeset' = EmptyChangeset
    /\ last_state' = EmptyDict
    /\ config' = NoConfig
    /\ done' = {}
    /\ UNCHANGED <<clock, disk, files, archiveds, backend, cur, runs, fsops, failures, restore_vars>>

\* ---------------------------------------------- other programs on the tree

\* One change of the source tree, made while no archive command is running
\* and before the restore
FsStep ==
    /\ pc = "idle"
    /\ restored = NoRestore
    /\ runs + fsops < MaxOps
    /\ fsops' = fsops + 1
    /\ UNCHANGED <<clock, files, archiveds, backend, pc, config, last_state,
                   changeset, done, cur, runs, failures, restore_vars>>

\* A program creates or rewrites p. A plain write leaves the current second as
\* the mtime; cp -p, rsync -t or tar -x set the mtime they carry.
Write ==
    /\ FsStep
    /\ \E p \in Changing, c \in Contents, t \in 0..MaxTime :
          /\ disk[p].kind = "file" => disk[p].content # c
          /\ disk' = [disk EXCEPT ![p] =
                IF @.kind = "file"
                THEN [@ EXCEPT !.content = c, !.st_mtime = t]
                ELSE DiskFile(c, t, DefaultOwner, DefaultMode)]

\* os.utime: the mtime is set to any second, past or future
Touch ==
    /\ FsStep
    /\ \E p \in Changing, t \in 0..MaxTime :
          /\ is_file(p)
          /\ disk[p].st_mtime # t
          /\ disk' = [disk EXCEPT ![p].st_mtime = t]

\* os.chmod
Chmod ==
    /\ FsStep
    /\ \E p \in Changing, m \in Modes :
          /\ is_file(p)
          /\ disk[p].st_mode # m
          /\ disk' = [disk EXCEPT ![p].st_mode = m]

\* os.unlink
Unlink ==
    /\ FsStep
    /\ \E p \in Changing :
          /\ is_file(p)
          /\ disk' = [disk EXCEPT ![p] = Absent]

\* restore command (commands.py 181-218), or a call of restore(): one restore,
\* after which nothing else runs. The State it reads is State.at of any
\* timestamp.
Restore ==
    /\ pc = "idle"
    /\ restored = NoRestore
    /\ \E state_at \in UNION {State_at(Rows, T) : T \in 0..MaxTime} :
          \E args \in RestoreArgs :
              LET r == restore(args.before, state_at, Dest, Pattern(args.pattern),
                               args.missing_ok, args.password)
              IN  /\ dest' = r.dest
                  /\ restored' = [pattern |-> Pattern(args.pattern),
                                  state |-> state_at, before |-> args.before,
                                  missing_ok |-> args.missing_ok,
                                  password |-> args.password,
                                  restored |-> r.restored, raised |-> r.raised]
    /\ UNCHANGED <<clock, disk, files, archiveds, backend, pc, config, last_state,
                   changeset, done, cur, runs, fsops, failures, query, retrieved,
                   raised, s3_vars, cli_vars>>

Next ==
    \/ Scan
    \/ CommitUpdate
    \/ ArchiveCreate
    \/ ArchiveStoreOk
    \/ ArchiveStoreFail
    \/ ArchiveSave
    \/ CommitDone
    \/ Write
    \/ Touch
    \/ Chmod
    \/ Unlink

Spec == Init /\ [][Next]_vars

\* File.archive called on a File loaded from the index, which has an id. When
\* the call raises nothing it goes on to storage.store.
ArchiveAgain ==
    /\ pc = "idle"
    /\ raised = "no"
    /\ \E row \in Rows :
          LET file == FromRow(row)
              r == archive_create(file)
          IN  /\ raised' = IF r.raised = "no" THEN "nothing" ELSE r.raised
              /\ archiveds' = r.archiveds
              /\ pc' = IF r.raised = "no" THEN "store" ELSE pc
              /\ cur' = IF r.raised = "no"
                        THEN [kind |-> "again", path |-> file.path,
                              archived |-> Len(archiveds) + 1]
                        ELSE cur
    /\ UNCHANGED <<clock, disk, files, backend, config, last_state, changeset,
                   done, runs, fsops, failures, dest, restored, query,
                   retrieved, s3_vars, cli_vars>>

\* The archive runs, with File.archive also called on Files of the index
SpecArchiveAgain == Init /\ [][Next \/ ArchiveAgain]_vars

NextRestore == Next \/ Restore

\* ------------------------------------------------- State.at on any table

\* The rows a File table may hold: any path, action and last_modified
RowSpace ==
    {[path |-> p, action |-> a, last_modified |-> t] :
        p \in FilePaths, a \in Actions, t \in 0..MaxTime}

\* A rank that orders RowSpace, so that each table is drawn once
rank(r) == (position(r.path) * 5 + r.action) * (MaxTime + 1) + r.last_modified

\* The File tables of up to MaxRows rows, each row pointing at Archived 1
Tables(n) ==
    {t \in [1..n -> RowSpace] :
        \A i \in 1..(n - 1) : rank(t[i]) <= rank(t[i + 1])}

GivenRow(r, id) ==
    [id |-> id, path |-> r.path, archived |-> 1, action |-> r.action,
     last_modified |-> r.last_modified, owner |-> DefaultOwner[1],
     group |-> DefaultOwner[2], permissions |-> DefaultMode]

InitStateAt ==
    /\ clock = 0
    /\ disk = [p \in FilePaths |-> Absent]
    /\ \E n \in 0..MaxRows :
          \E t \in Tables(n) : files = [i \in 1..n |-> GivenRow(t[i], i)]
    /\ archiveds = <<[hash |-> sha256("x"), size |-> st_size("x")]>>
    /\ backend = EmptyDict
    /\ pc = "idle"
    /\ config = NoConfig
    /\ last_state = EmptyDict
    /\ changeset = EmptyChangeset
    /\ done = {}
    /\ cur = None
    /\ runs = 0
    /\ fsops = 0
    /\ failures = 0
    /\ dest = EmptyDest
    /\ restored = NoRestore
    /\ query = NoQuery
    /\ retrieved = NoRetrieve
    /\ raised = "no"
    /\ s3 = NoS3
    /\ checked = NoCheck
    /\ lock = {}
    /\ proc = NoProcs

\* State.at(timestamp) (index.py 98-117)
Query ==
    /\ \E T \in -1..(MaxTime + 1) :
          \E state \in State_at(Rows, T) :
              query' = [timestamp |-> T, state |-> state]
    /\ UNCHANGED <<clock, disk, files, archiveds, backend, pc, config, last_state,
                   changeset, done, cur, runs, fsops, failures, dest, restored,
                   retrieved, raised, s3_vars, cli_vars>>

\* State.at called on any File table
SpecStateAt == InitStateAt /\ [][Query]_vars

\* The objects a backend may hold: whole or truncated uploads of any bytes
\* under the configured password
StoredObjects ==
    {[complete |-> k, data |-> encrypt(c, Password)] : c \in Contents, k \in BOOLEAN}

\* A backend with no object, or with the object of Archived row 1
Backends == {EmptyDict} \cup {[i \in {"1"} |-> o] : o \in StoredObjects}

\* What S3 tells of an object: its storage class, and for an object in
\* Glacier whether a restore was never requested, is going on, or is done
S3Objects ==
    {[storage_class |-> "STANDARD", restore |-> "None"]} \cup
    {[storage_class |-> c, restore |-> r] :
        c \in Glacier,
        r \in {"None", "ongoing-request=true", "ongoing-request=false"}}

InitRetrieve ==
    /\ clock = 0
    /\ disk = [p \in FilePaths |-> Absent]
    /\ files = <<>>
    /\ archiveds = <<>>
    /\ backend \in Backends
    /\ pc = "idle"
    /\ config = NoConfig
    /\ last_state = EmptyDict
    /\ changeset = EmptyChangeset
    /\ done = {}
    /\ cur = None
    /\ runs = 0
    /\ fsops = 0
    /\ failures = 0
    /\ dest \in {NoDest, DestDir, DestDirWithFile}
    /\ restored = NoRestore
    /\ query = NoQuery
    /\ retrieved = NoRetrieve
    /\ raised = "no"
    /\ s3 \in {[NoS3 EXCEPT !.objects = o] : o \in [DOMAIN backend -> S3Objects]}
    /\ checked = NoCheck
    /\ lock = {}
    /\ proc = NoProcs

\* storage.retrieve(local_path, archive_id, password) of the Local or the S3
\* backend, called once
Retrieve ==
    /\ retrieved = NoRetrieve
    /\ \E storage \in {"local", "s3"} :
       \E local_path \in {Dest, Dest \o <<"a">>, Dest \o <<"b">>} :
       \E archive_id \in {"1", "2"} :
       \E password \in {Password, "wrong"} :
          LET r == IF storage = "local"
                   THEN retrieve(dest, local_path, archive_id, password)
                   ELSE S3_retrieve(dest, local_path, archive_id, password)
          IN  /\ dest' = r.dest
              /\ s3' = IF storage = "local" THEN s3 ELSE r.s3
              /\ retrieved' = [storage |-> storage, local_path |-> local_path,
                               archive_id |-> archive_id, password |-> password,
                               before |-> dest, status |-> r.status,
                               calls |-> r.calls]
    /\ UNCHANGED <<clock, disk, files, archiveds, backend, pc, config, last_state,
                   changeset, done, cur, runs, fsops, failures, restored, query,
                   raised, checked, cli_vars>>

\* storage.retrieve called on any backend and any destination
SpecRetrieve == InitRetrieve /\ [][Retrieve]_vars

\* The archive_ids of the objects of the bucket
S3Keys == {"1", "2"}

InitS3Check ==
    /\ clock = 0
    /\ disk = [p \in FilePaths |-> Absent]
    /\ files = <<>>
    /\ archiveds = <<>>
    /\ backend = EmptyDict
    /\ pc = "idle"
    /\ config = NoConfig
    /\ last_state = EmptyDict
    /\ changeset = EmptyChangeset
    /\ done = {}
    /\ cur = None
    /\ runs = 0
    /\ fsops = 0
    /\ failures = 0
    /\ dest = EmptyDest
    /\ restored = NoRestore
    /\ query = NoQuery
    /\ retrieved = NoRetrieve
    /\ raised = "no"
    /\ s3 \in {[NoS3 EXCEPT !.objects = o] : o \in [S3Keys -> S3Objects]}
    /\ checked = NoCheck
    /\ lock = {}
    /\ proc = NoProcs

\* storage.check_is_available(archive_id) called with an archive_id
CheckIsAvailable ==
    /\ checked.count < MaxChecks
    /\ \E archive_id \in S3Keys :
          LET r == check_is_available(s3, archive_id)
          IN  /\ s3' = [s3 EXCEPT !.cache = r.cache]
              /\ checked' = [archive_id |-> archive_id, raised |-> r.raised,
                             count |-> checked.count + 1,
                             failed |-> IF r.raised \in {"frozen", "retrieve in progress"}
                                        THEN checked.failed \cup {archive_id}
                                        ELSE checked.failed]
    /\ UNCHANGED <<clock, disk, files, archiveds, backend, pc, config, last_state,
                   changeset, done, cur, runs, fsops, failures, dest, restored,
                   query, retrieved, raised, cli_vars>>

\* S3 receives a restore request for the frozen object k, from anyone
S3RestoreRequested(k) ==
    /\ s3.objects[k].storage_class \in Glacier
    /\ s3.objects[k].restore = "None"
    /\ s3' = [s3 EXCEPT !.objects[k].restore = "ongoing-request=true"]
    /\ UNCHANGED <<clock, disk, files, archiveds, backend, pc, config, last_state,
                   changeset, done, cur, runs, fsops, failures, dest, restored,
                   query, retrieved, raised, checked, cli_vars>>

\* S3 completes the restore of object k: it has thawed
S3RestoreCompletes(k) ==
    /\ s3.objects[k].restore = "ongoing-request=true"
    /\ s3' = [s3 EXCEPT !.objects[k].restore = "ongoing-request=false"]
    /\ UNCHANGED <<clock, disk, files, archiveds, backend, pc, config, last_state,
                   changeset, done, cur, runs, fsops, failures, dest, restored,
                   query, retrieved, raised, checked, cli_vars>>

\* The days of the restore of object k are over: it is frozen again
S3RestoreExpires(k) ==
    /\ s3.objects[k].restore = "ongoing-request=false"
    /\ s3' = [s3 EXCEPT !.objects[k].restore = "None"]
    /\ UNCHANGED <<clock, disk, files, archiveds, backend, pc, config, last_state,
                   changeset, done, cur, runs, fsops, failures, dest, restored,
                   query, retrieved, raised, checked, cli_vars>>

NextS3Check ==
    \/ CheckIsAvailable
    \/ \E k \in S3Keys :
          S3RestoreRequested(k) \/ S3RestoreCompletes(k) \/ S3RestoreExpires(k)

\* check_is_available called in one process while the objects thaw and freeze
SpecS3Check == InitS3Check /\ [][NextS3Check]_vars

\* The process is interrupted (killed, or KeyboardInterrupt, which `except
\* Exception` does not catch) while File.archive is in storage.store or
\* between storage.store and self.save() (models.py 238-257). Nothing more of
\* the command runs. An interrupted upload has written nothing or a part.
Interrupt ==
    /\ pc \in {"store", "save"}
    /\ failures < MaxFailures
    /\ failures' = failures + 1
    /\ IF pc = "store"
       THEN \E partial \in BOOLEAN :
               backend' = store(cur.path, ToString(cur.archived), Password, FALSE,
                                partial /\ is_file(cur.path))
       ELSE backend' = backend
    /\ pc' = "idle"
    /\ cur' = None
    /\ changeset' = EmptyChangeset
    /\ last_state' = EmptyDict
    /\ config' = NoConfig
    /\ done' = {}
    /\ UNCHANGED <<clock, disk, files, archiveds, runs, fsops, restore_vars>>

\* The archive runs, any of which may be interrupted
SpecInterrupt == Init /\ [][Next \/ Interrupt]_vars

\* The timestamp arguments: the second as an int, or a datetime of it
TimestampArgs == [type : {"int", "datetime"}, value : 0..MaxTime]

\* The test that takes every timestamp argument for an int
isinstance_anything(timestamp) == TRUE

\* isinstance(timestamp, int) (index.py 103 and 234)
isinstance_int(timestamp) == timestamp.type = "int"

\* State.at(timestamp) with a timestamp argument of either type (index.py
\* 103-117), called once after the archive runs: what it raised, and the paths
\* of the State it returned
StateAtCall ==
    /\ pc = "idle"
    /\ query = NoQuery
    /\ restored = NoRestore
    /\ \E timestamp \in TimestampArgs :
          IF ~isinstance_int(timestamp)
          THEN query' = [type |-> timestamp.type, raised |-> "bad timestamp",
                         returned |-> {}]
          ELSE \E state \in State_at(Rows, timestamp.value) :
                  query' = [type |-> timestamp.type, raised |-> "no",
                            returned |-> {DOMAIN state}]
    /\ UNCHANGED <<clock, disk, files, archiveds, backend, pc, config, last_state,
                   changeset, done, cur, runs, fsops, failures, dest, restored,
                   retrieved, raised, s3_vars, cli_vars>>

\* The restore calls made with either type of timestamp: of everything into
\* an absent destination, and of a directory into one that holds a file
TimestampRestoreArgs ==
    {args \in RestoreArgs :
        /\ args.password = Password
        /\ \/ args.pattern = <<"">>
           \/ args.pattern = Src /\ args.before = DestDirWithFile}

\* restore() with a timestamp argument of either type (index.py 234-280),
\* called once after the archive runs
RestoreCall ==
    /\ pc = "idle"
    /\ query = NoQuery
    /\ restored = NoRestore
    /\ \E timestamp \in TimestampArgs :
       \E args \in TimestampRestoreArgs :
          IF ~isinstance_int(timestamp)
          THEN /\ dest' = args.before
               /\ restored' = [type |-> timestamp.type, before |-> args.before,
                               restored |-> EmptyDict, raised |-> "bad timestamp"]
          ELSE \E state_at \in State_at(Rows, timestamp.value) :
                  LET r == restore(args.before, state_at, Dest, Pattern(args.pattern),
                                   args.missing_ok, args.password)
                  IN  /\ dest' = r.dest
                      /\ restored' = [type |-> timestamp.type, before |-> args.before,
                                      restored |-> r.restored, raised |-> r.raised]
    /\ UNCHANGED <<clock, disk, files, archiveds, backend, pc, config, last_state,
                   changeset, done, cur, runs, fsops, failures, query, retrieved,
                   raised, s3_vars, cli_vars>>

\* The archive runs, with State.at and restore called with any timestamp
NextTimestamp ==
    \/ query = NoQuery /\ Next
    \/ StateAtCall
    \/ RestoreCall

SpecTimestamp == Init /\ [][NextTimestamp]_vars

\* The patterns search is called with: none, "/", a directory, a file, a
\* path never archived, a name that is the start of a directory's name, and a
\* relative path
SearchPatterns == {<<"">>, Root, Src, PA, PB, <<"src", "c">>, <<"sr">>, <<"a">>}

\* search(timestamp, pattern) (index.py 198-211), called once
Search ==
    /\ query = NoQuery
    /\ \E T \in 0..MaxTime :
       \E pattern \in SearchPatterns :
       \E state \in State_at(Rows, T) :
          query' = [timestamp |-> T, pattern |-> Pattern(pattern), state |-> state,
                    found |-> search(Pattern(pattern), state)]
    /\ UNCHANGED <<clock, disk, files, archiveds, backend, pc, config, last_state,
                   changeset, done, cur, runs, fsops, failures, dest, restored,
                   retrieved, raised, s3_vars, cli_vars>>

\* search called on any File table
SpecSearch == InitStateAt /\ [][Search]_vars

\* The subcommands of the cli group: test touches neither the index database
\* nor the backend, the others do
Commands == {"test", "archive", "restore"}

\* Process p is started: cli parses the config file and opens it
\* (commands.py 51-57)
CliStart(p) ==
    /\ proc[p].pc = "out"
    /\ \E command \in Commands :
          proc' = [proc EXCEPT ![p] = [pc |-> "parsed", command |-> command,
                                       accesses |-> 0]]
    /\ UNCHANGED <<clock, disk, files, archiveds, backend, pc, config, last_state,
                   changeset, done, cur, runs, fsops, failures, dest, restored,
                   query, retrieved, raised, s3_vars, lock>>

\* cli that goes on whether or not it was given the lock
CliLock_whatever_flock_says(p) ==
    /\ proc[p].pc = "parsed"
    /\ lock' = lock \cup {p}
    /\ proc' = [proc EXCEPT ![p].pc = "locked"]
    /\ UNCHANGED <<clock, disk, files, archiveds, backend, pc, config, last_state,
                   changeset, done, cur, runs, fsops, failures, dest, restored,
                   query, retrieved, raised, s3_vars>>

\* fcntl.flock(LOCK_EX | LOCK_NB) on the config file (commands.py 58-63): the
\* lock is given when no process holds it; otherwise flock raises IOError and
\* cli raises "already in use by another process"
CliLock(p) ==
    /\ proc[p].pc = "parsed"
    /\ IF lock = {}
       THEN /\ lock' = {p}
            /\ proc' = [proc EXCEPT ![p].pc = "locked"]
       ELSE /\ lock' = lock
            /\ proc' = [proc EXCEPT ![p].pc = "busy"]
    /\ UNCHANGED <<clock, disk, files, archiveds, backend, pc, config, last_state,
                   changeset, done, cur, runs, fsops, failures, dest, restored,
                   query, retrieved, raised, s3_vars>>

\* The subcommand of process p reaches the index database or the backend
\* (database.connect and what follows it, commands.py 102-110, 201-208)
Access(p) ==
    /\ proc[p].pc = "locked"
    /\ proc[p].command # "test"
    /\ proc[p].accesses < MaxAccesses
    /\ proc' = [proc EXCEPT ![p].accesses = @ + 1]
    /\ UNCHANGED <<clock, disk, files, archiveds, backend, pc, config, last_state,
                   changeset, done, cur, runs, fsops, failures, dest, restored,
                   query, retrieved, raised, s3_vars, lock>>

\* Process p ends, after its subcommand or after the error of cli; the
\* descriptor it opened is closed, which gives up the lock it holds
Exit(p) ==
    /\ proc[p].pc \in {"locked", "busy"}
    /\ proc' = [proc EXCEPT ![p] = NoProc]
    /\ lock' = lock \ {p}
    /\ UNCHANGED <<clock, disk, files, archiveds, backend, pc, config, last_state,
                   changeset, done, cur, runs, fsops, failures, dest, restored,
                   query, retrieved, raised, s3_vars>>

NextCli == \E p \in Procs : CliStart(p) \/ CliLock(p) \/ Access(p) \/ Exit(p)

\* Processes started on one config file, in any interleaving
SpecCli == Init /\ [][NextCli]_vars

\* The archive runs followed by a restore
SpecRestore == Init /\ [][NextRestore]_vars

\* ------------------------------------- programs writing during an archive run

\* A program rewrites a file of the tree while the archive command is in
\* commit: after scan has read its stat, and before or after File.archive has
\* hashed it (models.py 238) and before storage.store reads it (base.py 45)
WriteDuringCommit ==
    /\ pc \in {"commit", "store"}
    /\ runs + fsops < MaxOps
    /\ fsops' = fsops + 1
    /\ \E p \in Changing, c \in Contents, t \in clock..MaxTime :
          /\ is_file(p)
          /\ disk[p].content # c
          /\ disk' = [disk EXCEPT ![p].content = c, ![p].st_mtime = t]
    /\ UNCHANGED <<clock, files, archiveds, backend, pc, config, last_state,
                   changeset, done, cur, runs, failures, restore_vars>>

\* The archive command on a tree that other programs write to at any moment
SpecConcurrent == Init /\ [][Next \/ WriteDuringCommit]_vars

\* ----------------------------------------- scan under any [source] section

\* The [source] sections of the tree: the whole tree, one directory, one file,
\* and excludes that name a file, a directory, or a directory's entries
TreeConfigs ==
    {[includes |-> <<Src>>, excludes |-> <<>>],
     [includes |-> <<Src>>, excludes |-> <<PB>>],
     [includes |-> <<Root>>, excludes |-> <<Src>>],
     [includes |-> <<Src>>, excludes |-> <<<<"src", "*">>>>],
     [includes |-> <<PA>>, excludes |-> <<>>]}

\* The entries the tree may hold besides regular files
TreeEntries == {Absent, Fifo, Dangling} \cup InitialFiles

\* The archive is empty; /src/a is a regular file and /src/b is any entry
InitTree ==
    /\ clock = 0
    /\ disk \in {d \in [FilePaths -> TreeEntries] : d[PA] \in InitialFiles}
    /\ files = <<>>
    /\ archiveds = <<>>
    /\ backend = EmptyDict
    /\ pc = "idle"
    /\ config = NoConfig
    /\ last_state = EmptyDict
    /\ changeset = EmptyChangeset
    /\ done = {}
    /\ cur = None
    /\ runs = 0
    /\ fsops = 0
    /\ failures = 0
    /\ dest = EmptyDest
    /\ restored = NoRestore
    /\ query = NoQuery
    /\ retrieved = NoRetrieve
    /\ raised = "no"
    /\ s3 = NoS3
    /\ checked = NoCheck
    /\ lock = {}
    /\ proc = NoProcs

\* archive command under any [source] section
ScanTree == ScanOf(TreeConfigs)

\* Another program replaces /src/b by a pipe, a dangling link or a regular
\* file, or removes it
Replace ==
    /\ FsStep
    /\ \E e \in TreeEntries :
          /\ disk[PB] # e
          /\ disk' = [disk EXCEPT ![PB] = e]

NextTree ==
    \/ ScanTree
    \/ CommitUpdate
    \/ ArchiveCreate
    \/ ArchiveStoreOk
    \/ ArchiveSave
    \/ CommitDone
    \/ Replace

\* Archive runs whose [source] section changes from run to run
SpecTree == InitTree /\ [][NextTree]_vars

\* ------------------------------------------- the archive command run again

\* commit has returned without an error and the archive command is run again
\* with the same [source] section, no program having touched the tree in
\* between (commands.py 106-110, then 106-108)
Rescan ==
    /\ CommitComplete
    /\ restored = NoRestore
    /\ runs + fsops < MaxOps
    /\ \E now \in clock..MaxTime :
          \E state \in State_at(Rows, now) :
              /\ clock' = now
              /\ last_state' = state
              /\ changeset' = scan(config.includes, config.excludes, state)
    /\ done' = {}
    /\ runs' = runs + 1
    /\ UNCHANGED <<disk, files, archiveds, backend, pc, config, cur, fsops,
                   failures, restore_vars>>

\* Archive runs, some of them right after a run that went through
SpecRescan == Init /\ [][Next \/ Rescan]_vars

\* ---------------------------------------------- State.at of an earlier time

\* State.at(T) read once, when every archive run so far has committed and
\* returned, for a T before the second the last run read, which is before
\* that commit completed; archive runs go on afterwards
StateAtEarlier ==
    /\ pc = "idle"
    /\ runs > 0
    /\ failures = 0
    /\ query = NoQuery
    /\ restored = NoRestore
    /\ \E T \in 0..(clock - 1) :
          \E state \in State_at(Rows, T) :
              query' = [timestamp |-> T, state |-> state]
    /\ UNCHANGED <<clock, disk, files, archiveds, backend, pc, config, last_state,
                   changeset, done, cur, runs, fsops, failures, dest, restored,
                   retrieved, raised, s3_vars, cli_vars>>

\* Archive runs, with one look at an earlier time between them
SpecHistory == Init /\ [][Next \/ StateAtEarlier]_vars

\* ------------------------------------------------------------------ claims

\* The regular files the walk of the running scan reaches: under an include
\* that exists, with no excluded path from the include down to the file
Visited ==
    {p \in FilePaths :
        /\ is_file(p)
        /\ \E i \in 1..Len(config.includes) :
              LET inc == config.includes[i]
              IN  /\ path_exists(inc)
                  /\ inc \in prefixes(p)
                  /\ \A q \in prefixes(p) :
                        Len(q) >= Len(inc) => ~is_excluded(q, config.excludes)}

\* The rows of path p
RowsOf(p) == {r \in Rows : r.path = p}

\* C1: whatever scan and commit runs have put in the index, for every
\* timestamp T the State that State.at(T) returns, and that search(T) returns
\* for the empty pattern, holds no File whose action is DELETE.
C1_StateHoldsNoDelete ==
    \A T \in -1..(MaxTime + 1) :
        \A state \in State_at(Rows, T) :
            LET found == search(Pattern(<<"">>), state)
            IN  /\ found = state
                /\ \A p \in DOMAIN found : found[p].action # DELETE

\* C1 witness: the index holds a DELETE row and State.at of a timestamp at or
\* after it returns a State without that row's path
C1_Witness ==
    \E r \in Rows :
        /\ r.action = DELETE
        /\ \E T \in r.last_modified..MaxTime :
              \E state \in State_at(Rows, T) : r.path \notin DOMAIN state

\* C2: for every timestamp T and every File table, State.at(T) maps a path to
\* a row of that path with the greatest last_modified among its rows with
\* last_modified <= T; the path is left out when the chosen row is a DELETE
\* (no older row stands in for it) and when it has no row with
\* last_modified <= T.
C2_StateAtLatestRow ==
    query # NoQuery =>
        /\ DOMAIN query.state \subseteq FilePaths
        /\ \A p \in FilePaths :
              LET upto == {r \in RowsOf(p) : r.last_modified <= query.timestamp}
                  newest == {r \in upto : \A q \in upto : q.last_modified <= r.last_modified}
              IN  /\ p \in DOMAIN query.state =>
                        \E r \in newest : /\ r.action # DELETE
                                          /\ query.state[p] = FromRow(r)
                  /\ p \notin DOMAIN query.state =>
                        \/ upto = {}
                        \/ \E r \in newest : r.action = DELETE

\* C2 witness: a path with an older row that is no DELETE and a later DELETE
\* row, both at or before the timestamp asked for, is left out of the State
C2_Witness ==
    /\ query # NoQuery
    /\ \E old, new \in Rows :
          /\ old.path = new.path
          /\ old.action # DELETE
          /\ new.action = DELETE
          /\ old.last_modified < new.last_modified
          /\ new.last_modified <= query.timestamp
          /\ old.path \notin DOMAIN query.state

\* The target of a restore whose pattern is the one path P of the State
single_target(P) ==
    IF dest_is_dir(restored.before, Dest) THEN Dest \o <<P[Len(P)]>> ELSE Dest

\* C3: for a path P of State.at(T), restore(T, pattern = P) into a target
\* that does not exist returns P: True and writes to the target exactly the
\* bytes whose sha256 is the hash of State.at(T)[P].archived; nothing else of
\* the destination's files changes.
C3_RestoreWritesArchivedBytes ==
    (/\ restored # NoRestore
     /\ Pattern_bool(restored.pattern)
     /\ restored.pattern.path \in DOMAIN restored.state
     /\ ~dest_exists(restored.before, single_target(restored.pattern.path))) =>
        LET P == restored.pattern.path
            target == single_target(P)
        IN  /\ restored.raised = "no"
            /\ restored.restored = [p \in {P} |-> "True"]
            /\ DOMAIN dest.files = DOMAIN restored.before.files \cup {target}
            /\ \A q \in DOMAIN restored.before.files :
                  dest.files[q] = restored.before.files[q]
            /\ \E c \in Contents :
                  /\ dest.files[target] = c
                  /\ sha256(c) = archiveds[restored.state[P].archived].hash

\* C3 witness: a restore of /src/a at a timestamp before a later content
\* change of it wrote the earlier bytes, not the later ones
C3_Witness ==
    /\ restored # NoRestore
    /\ restored.pattern.path = PA
    /\ PA \in DOMAIN restored.state
    /\ restored.raised = "no"
    /\ PA \in DOMAIN restored.restored
    /\ restored.restored[PA] = "True"
    /\ \E later \in RowsOf(PA) :
          /\ later.action = CONTENT
          /\ later.last_modified > restored.state[PA].last_modified
          /\ archiveds[later.archived].hash #
                archiveds[restored.state[PA].archived].hash
          /\ sha256(dest.files[single_target(PA)]) =
                archiveds[restored.state[PA].archived].hash

\* C4: in every reachable state, runs with broken uploads included, every
\* File row whose action is not DELETE references an Archived row with a
\* non-empty hash, and the backend holds the whole object stored under that
\* row's id.
C4_LiveRowsAreStored ==
    \A r \in Rows :
        r.action # DELETE =>
            /\ r.archived \in 1..Len(archiveds)
            /\ archiveds[r.archived].hash # NoHash
            /\ ToString(r.archived) \in DOMAIN backend
            /\ backend[ToString(r.archived)].complete

\* C4 witness: an upload broke, leaving an Archived row with the hash "", and
\* a later run saved a File row that is no DELETE
C4_Witness ==
    \E i \in DOMAIN archiveds :
        /\ archiveds[i].hash = NoHash
        /\ \E r \in Rows : r.action # DELETE /\ r.archived > i

\* C5: the Archived table holds at most one row per non-empty hash.
C5_OneArchivedPerHash ==
    \A i, j \in DOMAIN archiveds :
        (archiveds[i].hash # NoHash /\ archiveds[i].hash = archiveds[j].hash) => i = j

\* C6: no path is a key of more than one of the mappings added, content,
\* metadata and deleted of the Changeset a scan returns, whatever the
\* includes are.
C6_OneMappingPerPath ==
    \A k1, k2 \in Mappings :
        k1 # k2 => (DOMAIN changeset[k1]) \cap (DOMAIN changeset[k2]) = {}

\* C7: a scan classifies every regular file P it visits against
\* prev = State.at(now)[P]: with no prev, P is in added with action ADD; with
\* a prev of equal metadata, P is in no mapping; with a prev that differs and
\* a hash other than prev.archived.hash, P is in content with action CONTENT;
\* with a prev that differs and the same hash, P is in metadata with action
\* METADATA and prev's archived.
C7_ClassifiedAgainstLastState ==
    pc # "idle" =>
        \A P \in Visited :
            LET file == refresh_metadata_from_disk(NewFile(P))
            IN  IF P \notin DOMAIN last_state
                THEN /\ P \in DOMAIN changeset.added
                     /\ changeset.added[P].action = ADD
                ELSE IF File_eq(file, last_state[P])
                THEN \A k \in Mappings : P \notin DOMAIN changeset[k]
                ELSE IF sha256(disk[P].content) # archiveds[last_state[P].archived].hash
                THEN /\ P \in DOMAIN changeset.content
                     /\ changeset.content[P].action = CONTENT
                ELSE /\ P \in DOMAIN changeset.metadata
                     /\ changeset.metadata[P].action = METADATA
                     /\ changeset.metadata[P].archived = last_state[P].archived

\* C8: the deleted mapping of a scan's Changeset holds exactly the paths of
\* State.at(now) that the walk did not visit as regular files; each entry is
\* an unsaved File with action DELETE, and with the path, the archived and
\* the metadata of the State's row of the path.
C8_DeletedAreUnvisited ==
    pc # "idle" =>
        /\ DOMAIN changeset.deleted = (DOMAIN last_state) \ Visited
        /\ \A p \in DOMAIN changeset.deleted :
              LET entry == changeset.deleted[p]
                  prev == last_state[p]
              IN  /\ entry.id = None
                  /\ entry.action = DELETE
                  /\ entry.path = p
                  /\ entry.archived = prev.archived
                  /\ entry.last_modified = prev.last_modified
                  /\ entry.owner = prev.owner
                  /\ entry.group = prev.group
                  /\ entry.permissions = prev.permissions

\* C8 witness: a scan found one archived file removed from disk and another
\* excluded, and holds a deleted entry for each
C8_Witness ==
    /\ pc = "commit"
    /\ \E p, q \in DOMAIN changeset.deleted : ~is_file(p) /\ is_file(q)

\* C9: once the DELETE entry of a file removed from disk is committed,
\* State.at(now) no longer holds the file's path.
C9_RemovedFileLeavesState ==
    CommitComplete =>
        \A p \in DOMAIN changeset.deleted :
            ~is_file(p) =>
                \A state \in State_at(Rows, clock) : p \notin DOMAIN state

\* C10: once a scan has found the content of an archived path P changed and
\* its commit went through with no storage error, State.at(now)[P] is the new
\* CONTENT row, which references the Archived row of the new bytes, whatever
\* the file's new modification time is.
C10_ContentChangeIsLatest ==
    CommitComplete =>
        \A p \in DOMAIN changeset.content :
            \A state \in State_at(Rows, clock) :
                /\ p \in DOMAIN state
                /\ state[p].action = CONTENT
                /\ \A r \in RowsOf(p) : r.id <= state[p].id
                /\ archiveds[state[p].archived].hash = sha256(disk[p].content)

\* C11: once a scan has found only the metadata of an archived path P changed,
\* with the bytes and the mtime as they were, and its commit went through, the
\* commit has inserted one File row for P and no Archived row and has written
\* nothing to the backend, and State.at(now)[P] is that new METADATA row, with
\* the Archived of the row before it.
C11_MetadataChangeIsLatest ==
    CommitComplete =>
        \A p \in DOMAIN changeset.metadata :
            (/\ changeset.metadata[p].last_modified = last_state[p].last_modified
             /\ \A k \in Mappings \ {"metadata"} : p \notin DOMAIN changeset[k]) =>
                /\ \A r \in RowsOf(p) :
                      r.id > last_state[p].id =>
                          /\ r.action = METADATA
                          /\ r.archived = last_state[p].archived
                          /\ \A q \in RowsOf(p) : q.id <= r.id
                /\ \A state \in State_at(Rows, clock) :
                      /\ p \in DOMAIN state
                      /\ state[p].action = METADATA
                      /\ \A r \in RowsOf(p) : r.id <= state[p].id
                      /\ state[p].archived = last_state[p].archived

\* C12: in every state that scan and commit runs reach, no two File rows of
\* one path have the same last_modified.
C12_OneRowPerPathAndTime ==
    \A r, q \in Rows :
        (r.path = q.path /\ r.last_modified = q.last_modified) => r.id = q.id

\* C13: when File.archive succeeds, the call has created one Archived row,
\* with the sha256 and the size of the file; the backend holds under
\* str(archived.id) an object that decrypts with the password to the file's
\* bytes; and the call has inserted one File row, which references that
\* Archived row.
C13_ArchiveStoresAndLinks ==
    [][(pc = "save" /\ pc' = "commit") =>
          LET bytes == disk[cur.path].content
              key == ToString(cur.archived)
          IN  /\ Len(archiveds') = cur.archived
              /\ archiveds'[cur.archived] = [hash |-> sha256(bytes), size |-> st_size(bytes)]
              /\ key \in DOMAIN backend'
              /\ backend'[key].complete
              /\ decrypt(backend'[key].data, Password) = bytes
              /\ Len(files') = Len(files) + 1
              /\ SubSeq(files', 1, Len(files)) = files
              /\ files'[Len(files')].archived = cur.archived
              /\ files'[Len(files')].path = cur.path
              /\ \A i \in 1..Len(files) : files[i].archived # cur.archived]_vars

\* C13 witness: File.archive has gone through for a content entry
C13_Witness ==
    /\ pc = "commit"
    /\ \E e \in done : e[1] = "content"

\* C14: when storage.store fails during File.archive, the error leaves the
\* call, no File row is inserted, and the Archived row created for the attempt
\* stays in the index with the hash "".
C14_FailedArchiveLeavesTombstone ==
    [][(pc = "store" /\ pc' # "save") =>
          /\ pc' = "idle"
          /\ files' = files
          /\ Len(archiveds') = Len(archiveds)
          /\ archiveds'[cur.archived].hash = NoHash
          /\ \A i \in 1..(Len(archiveds) - 1) : archiveds'[i] = archiveds[i]]_vars

\* C14 witness: an upload broke and its Archived row is in the index with
\* the hash ""
C14_Witness ==
    /\ failures > 0
    /\ \E i \in DOMAIN archiveds : archiveds[i].hash = NoHash

\* C15: a failure to archive one file of added or content does not end
\* Changeset.commit: the commit goes on with the files that remain.
C15_FailureDoesNotAbortCommit ==
    [][(/\ pc = "store"
        /\ pc' # "save"
        /\ pending({"added", "content"}) \ {<<cur.kind, cur.path>>} # {}) =>
          /\ pc' = "commit"
          /\ changeset' = changeset]_vars

\* C16: File.archive called on a File that has an id raises the
\* already-archived error and changes nothing: it creates no Archived row and
\* starts no backend store.
C16_ArchiveTwiceRefused ==
    [][raised' # raised =>
          /\ raised' = "Cannot archive a file twice"
          /\ archiveds' = archiveds
          /\ backend' = backend
          /\ files' = files
          /\ pc' = pc
          /\ cur' = cur]_vars

\* C16 witness: File.archive was called on a File of the index, which is the
\* row of an earlier successful archive, and raised
C16_Witness ==
    /\ raised = "Cannot archive a file twice"
    /\ Len(files) > 0

\* C17: retrieve into a local_path that already exists fails with FileExists
\* before any backend call is made (no get_size, no read, and for S3 no
\* availability check and no thaw request), and what is at local_path, like
\* the rest of the destination, is left as it was.
C17_RetrieveOntoExistingRefused ==
    (/\ retrieved # NoRetrieve
     /\ dest_exists(retrieved.before, retrieved.local_path)) =>
        /\ retrieved.status = "file exists"
        /\ retrieved.calls = <<>>
        /\ dest = retrieved.before

\* C17 witness: the S3 backend was asked to retrieve an object that the backend
\* holds onto a file that exists, and refused
C17_Witness ==
    /\ retrieved # NoRetrieve
    /\ retrieved.storage = "s3"
    /\ retrieved.local_path \in DOMAIN retrieved.before.files
    /\ retrieved.archive_id \in DOMAIN backend
    /\ retrieved.status = "file exists"

\* C18: in restore, an error on one file is recorded as that path's value in
\* the result map and every other matched path is still restored: restore
\* returns a result map, which has exactly one entry, true or an error, for
\* each path of search(T, P).
C18_RestoreRecordsErrorsAndGoesOn ==
    (/\ restored # NoRestore
     /\ DOMAIN search(restored.pattern, restored.state) # {}) =>
        /\ restored.raised = "no"
        /\ DOMAIN restored.restored = DOMAIN search(restored.pattern, restored.state)
        /\ \A p \in DOMAIN restored.restored :
              restored.restored[p] \in {"True", "file exists"}

\* The target the restore that ran has for path p of the state it read
expected_target(p) ==
    LET P == restored.pattern
    IN  IF P.str = ""
        THEN Dest \o p
        ELSE IF P.path = p
             THEN IF dest_is_dir(restored.before, Dest)
                  THEN Dest \o <<p[Len(p)]>>
                  ELSE Dest
             ELSE Dest \o SubSeq(p, Len(P.path) + 1, Len(p))

\* C19: restore computes each target as: with a pattern P, D /
\* path.relative_to(P); without a pattern, D / path.relative_to("/"); and when
\* P is itself one archived file path and D is an existing directory, D /
\* basename(P). A restore that returned wrote the archived bytes of every path
\* it reports true to that target, found something at that target for every
\* path it reports "file exists", and wrote nowhere else.
C19_TargetsComputed ==
    (/\ restored # NoRestore
     /\ restored.raised = "no") =>
        /\ \A p \in DOMAIN restored.restored :
              IF restored.restored[p] = "True"
              THEN /\ ~dest_exists(restored.before, expected_target(p))
                   /\ expected_target(p) \in DOMAIN dest.files
                   /\ sha256(dest.files[expected_target(p)]) =
                         archiveds[restored.state[p].archived].hash
              ELSE /\ dest_exists(restored.before, expected_target(p))
                   /\ dest_exists(dest, expected_target(p))
        /\ DOMAIN dest.files =
              DOMAIN restored.before.files \cup
                 {expected_target(p) : p \in {q \in DOMAIN restored.restored :
                                                 restored.restored[q] = "True"}}
        /\ \A t \in DOMAIN restored.before.files :
              dest.files[t] = restored.before.files[t]

\* C19 witness: a restore of the directory /src wrote /src/b to D/b and found
\* D/a in the way of /src/a
C19_Witness ==
    /\ restored # NoRestore
    /\ restored.pattern.path = Src
    /\ restored.raised = "no"
    /\ DOMAIN restored.restored = {PA, PB}
    /\ restored.restored[PA] = "file exists"
    /\ restored.restored[PB] = "True"
    /\ Dest \o <<"b">> \in DOMAIN dest.files

Frozen(obj) == obj.storage_class \in Glacier /\ obj.restore = "None"

Thawing(obj) == obj.storage_class \in Glacier /\ obj.restore = "ongoing-request=true"

\* The S3 retrieve that ran was given a local_path that did not exist and the
\* archive_id of an object of the bucket
S3RetrieveOfObject ==
    /\ retrieved # NoRetrieve
    /\ retrieved.storage = "s3"
    /\ ~dest_exists(retrieved.before, retrieved.local_path)
    /\ retrieved.archive_id \in DOMAIN s3.objects

\* C21: S3 retrieve of a Frozen object (storage class GLACIER or DEEP_ARCHIVE,
\* no restore metadata) issues a thaw request for that archive_id and then
\* fails with ObjectFrozen.
C21_FrozenIsThawed ==
    (S3RetrieveOfObject /\ Frozen(s3.objects[retrieved.archive_id])) =>
        /\ retrieved.status = "frozen"
        /\ \E request \in s3.thaws : request.Key = retrieved.archive_id

\* C22: S3 retrieve of an object in the Thawing state fails with
\* ObjectRetrieving and issues no new thaw request; and whenever S3 retrieve
\* fails with ObjectFrozen or ObjectRetrieving, local_path has not been
\* created or written.
C22_ThawingIsLeftAlone ==
    /\ (S3RetrieveOfObject /\ Thawing(s3.objects[retrieved.archive_id])) =>
          /\ retrieved.status = "retrieve in progress"
          /\ s3.thaws = {}
    /\ (/\ retrieved # NoRetrieve
        /\ retrieved.storage = "s3"
        /\ retrieved.status \in {"frozen", "retrieve in progress"}) =>
          dest = retrieved.before

\* C23: when two processes are started on the same config file, at most one
\* holds the config lock at any time, a process runs its subcommand only while
\* it holds the lock, and the process that could not take the lock has failed
\* without any index-database or backend access.
C23_OneProcessPerConfig ==
    /\ Cardinality(lock) <= 1
    /\ \A p \in Procs :
          /\ proc[p].pc = "locked" <=> p \in lock
          /\ proc[p].accesses > 0 => p \in lock
          /\ proc[p].pc = "busy" => proc[p].accesses = 0

\* C23 witness: process 2 found the config in use while process 1, which holds
\* the lock, was reading or writing the index
C23_Witness ==
    /\ lock = {1}
    /\ proc[1].accesses > 0
    /\ proc[2].pc = "busy"

\* Path `ancestor` is a directory above path p: p starts with its components
\* and has more
is_ancestor(ancestor, p) ==
    /\ Len(ancestor) < Len(p)
    /\ \A i \in 1..Len(ancestor) : ancestor[i] = p[i]

\* C24: Pattern.match(path) is true iff the pattern is empty, equals the path,
\* or is an ancestor directory of the path; search(T, pattern) returns exactly
\* the entries of State.at(T) whose path matches, and the whole of State.at(T)
\* for an empty or absent pattern.
C24_SearchReturnsMatches ==
    query # NoQuery =>
        LET P == query.pattern
            matches(p) == P.str = "" \/ P.path = p \/ is_ancestor(P.path, p)
        IN  /\ \A p \in FilePaths : Pattern_match(P, p) <=> matches(p)
            /\ DOMAIN query.found = {p \in DOMAIN query.state : matches(p)}
            /\ \A p \in DOMAIN query.found : query.found[p] = query.state[p]
            /\ P.str = "" => query.found = query.state

\* C24 witness: a search for the directory /src found both files of a State
\* that holds both, neither being the pattern itself
C24_Witness ==
    /\ query # NoQuery
    /\ query.pattern.path = Src
    /\ DOMAIN query.state = {PA, PB}
    /\ DOMAIN query.found = {PA, PB}

\* C25: State.at and restore called with a non-integer timestamp (a datetime)
\* fail with the bad-timestamp error before doing anything else: State.at
\* returns no State, restore returns no result, and the destination is as it
\* was.
C25_DatetimeRefused ==
    /\ (query # NoQuery /\ query.type # "int") =>
          /\ query.raised = "bad timestamp"
          /\ query.returned = {}
    /\ (restored # NoRestore /\ restored.type # "int") =>
          /\ restored.raised = "bad timestamp"
          /\ restored.restored = EmptyDict
          /\ dest = restored.before

\* C25 witness: with files in the index, restore of /src into a directory
\* that holds a file was called with a datetime and raised
C25_Witness ==
    /\ Len(files) > 0
    /\ restored # NoRestore
    /\ restored.before = DestDirWithFile
    /\ restored.type = "datetime"
    /\ restored.raised = "bad timestamp"

\* C26: within one Changeset.commit, every File row of the metadata and
\* deleted mappings is persisted before the first backend upload (store) of
\* any file in added or content begins: while File.archive is at or past
\* storage.store, the File table holds the row of each of those entries.
C26_UpdatesBeforeUploads ==
    pc \in {"store", "save"} =>
        \A k \in {"metadata", "deleted"} :
            \A p \in DOMAIN changeset[k] :
                \E i \in DOMAIN files : files[i] = ToRow(changeset[k][p], i)

\* C26 witness: a commit whose changeset has a metadata or deleted entry is
\* about to upload a file
C26_Witness ==
    /\ pc = "store"
    /\ DOMAIN changeset.metadata \cup DOMAIN changeset.deleted # {}

\* C27: over any sequence of archive() calls, including calls whose upload
\* fails, each Archived row is created before its upload starts and each
\* backend key (str(Archived.id)) is written by at most one archive() call:
\* the Archived table only grows, and a step that writes to the backend writes
\* one key, that of the newest Archived row, which the backend did not hold.
C27_BackendKeysWrittenOnce ==
    [][/\ Len(archiveds') >= Len(archiveds)
       /\ backend' # backend =>
             /\ cur.archived \in DOMAIN archiveds
             /\ cur.archived = Len(archiveds)
             /\ ToString(cur.archived) \notin DOMAIN backend
             /\ DOMAIN backend' = DOMAIN backend \cup {ToString(cur.archived)}
             /\ \A k \in DOMAIN backend : backend'[k] = backend[k]]_vars

\* C27 witness: an upload broke and left a truncated object, and a later
\* archive stored its object under another key
C27_Witness ==
    \E k, j \in DOMAIN backend :
        /\ k # j
        /\ ~backend[k].complete
        /\ backend[j].complete

\* C28: if the process is interrupted at any point during File.archive, the
\* persistent state left for that attempt is a complete backend object plus
\* its Archived row and no File row, or an incomplete object plus its Archived
\* row with hash = "": when no command is running there is never an Archived
\* row with a non-empty hash whose backend object is missing or incomplete.
C28_NoHashWithoutObject ==
    pc = "idle" =>
        \A i \in DOMAIN archiveds :
            archiveds[i].hash # NoHash =>
                /\ ToString(i) \in DOMAIN backend
                /\ backend[ToString(i)].complete

\* C29: store is atomic for readers of the backend: at every moment,
\* including after a store failed part-way, the object for an archive_id is
\* either absent or completely written; a partially written object is never
\* there for get_size and read to find.
C29_ObjectsAreWhole ==
    \A k \in DOMAIN backend : backend[k].complete

\* S3 would give the object: it is not in Glacier, or its restore is done
Thawed(obj) == obj.storage_class \notin Glacier \/ obj.restore = "ongoing-request=false"

C38_FailedRetrieveLeavesNoFile ==
    (/\ retrieved # NoRetrieve
     /\ retrieved.storage = "local"
     /\ retrieved.status = "crash") =>
        ~dest_exists(dest, retrieved.local_path)

\* C40, its last part: an S3 object that is already Hot or Thawed is retrieved
\* on the first call: with the whole object in the bucket, the right password
\* and a directory to write in, retrieve into an absent local_path succeeds
\* and writes the decrypted file.
C40_ThawedIsRetrieved ==
    (/\ S3RetrieveOfObject
     /\ Thawed(s3.objects[retrieved.archive_id])
     /\ retrieved.archive_id \in DOMAIN backend
     /\ backend[retrieved.archive_id].complete
     /\ retrieved.password = Password
     /\ dest_is_dir(retrieved.before, parent(retrieved.local_path))) =>
        /\ retrieved.status = "True"
        /\ retrieved.local_path \in DOMAIN dest.files
        /\ dest.files[retrieved.local_path] = backend[retrieved.archive_id].data.plain

\* C37: every Archived row with a non-empty hash records the sha256 and the
\* length of the plaintext the backend holds under its id, also when the
\* source file is modified between the scan, the hashing and the upload.
C37_HashAndSizeOfStoredBytes ==
    \A i \in DOMAIN archiveds :
        (/\ archiveds[i].hash # NoHash
         /\ ToString(i) \in DOMAIN backend
         /\ backend[ToString(i)].complete) =>
            LET bytes == decrypt(backend[ToString(i)].data, Password)
            IN  /\ archiveds[i].hash = sha256(bytes)
                /\ archiveds[i].size = st_size(bytes)

\* C34: the index is append-only. No step of scan, commit or restore (with
\* the search it runs) changes or removes a File row that exists or removes an
\* Archived row, and a restore leaves both tables as they were.
C34_IndexIsAppendOnly ==
    [][/\ Len(files') >= Len(files)
       /\ SubSeq(files', 1, Len(files)) = files
       /\ Len(archiveds') >= Len(archiveds)
       /\ restored' # restored => (files' = files /\ archiveds' = archiveds)]_vars

\* C34 witness: a restore has run on an index that holds a DELETE row, a
\* METADATA row and the tombstone of a broken upload
C34_Witness ==
    /\ restored # NoRestore
    /\ restored.restored # EmptyDict
    /\ \E r \in Rows : r.action \in {DELETE, METADATA}
    /\ Len(archiveds) >= 2

\* scan has returned and commit has not started on the changeset
JustScanned == pc = "commit" /\ done = {} /\ cur = None

\* The differ found the regular file p to differ from its File of last_state
Differs(p) == p \in DOMAIN changeset.content \cup DOMAIN changeset.metadata

\* The File of last_state and the file on disk agree on path, last_modified,
\* owner, group and permissions
SameColumns(p) ==
    /\ last_state[p].last_modified = disk[p].st_mtime
    /\ last_state[p].owner = disk[p].st_uid
    /\ last_state[p].group = disk[p].st_gid
    /\ last_state[p].permissions = disk[p].st_mode

\* C33 as stated: the differ treats a visited path of last_state as unchanged
\* if and only if the two Files have the same path, last_modified, owner,
\* group and permissions; nothing else takes part.
C33_EqualityIsFourColumns ==
    JustScanned =>
        \A p \in Visited \cap DOMAIN last_state : ~Differs(p) <=> SameColumns(p)

\* C33 amended: the differ treats a visited path of last_state as unchanged
\* if and only if the two Files have the same path, last_modified, owner,
\* group, permissions and size, where the size of the indexed File is the
\* size of its Archived row; the content hash takes no part.
C33_EqualityIsColumnsAndSize ==
    JustScanned =>
        \A p \in Visited \cap DOMAIN last_state :
            ~Differs(p) <=>
                /\ SameColumns(p)
                /\ archiveds[last_state[p].archived].size = st_size(disk[p].content)

\* C33 witness: a file was rewritten with bytes of another hash and the same
\* length, its mtime was kept, and the differ treated it as unchanged
C33_Witness ==
    /\ JustScanned
    /\ \E p \in Visited \cap DOMAIN last_state :
          /\ ~Differs(p)
          /\ archiveds[last_state[p].archived].hash # sha256(disk[p].content)

\* The paths the differ of the running scan has classified
Classified ==
    DOMAIN changeset.added \cup DOMAIN changeset.content \cup DOMAIN changeset.metadata

\* C31: scan tests the exclude patterns on every path it visits, those it
\* reaches by descending into directories included: the files it classifies
\* all lie under an include with no excluded path from the include down to
\* the file, so an excluded directory is not descended into and an excluded
\* file is not classified; and no mapping of the changeset holds a directory.
C31_ExcludesOnEveryVisitedPath ==
    pc # "idle" =>
        /\ Classified \subseteq Visited
        /\ \A k \in Mappings : DOMAIN changeset[k] \cap DirPaths = {}

\* C31 witness: under the include / with the exclude /src, the scan has not
\* descended into /src: the regular files /src/a and /src/b, one of them in
\* the index, are left unclassified
C31_Witness ==
    /\ pc # "idle"
    /\ is_file(PA)
    /\ is_file(PB)
    /\ config = [includes |-> <<Root>>, excludes |-> <<Src>>]
    /\ PA \in DOMAIN last_state
    /\ PB \notin DOMAIN last_state
    /\ Classified = {}

\* C32: scan drops a visited path that is neither a directory nor a regular
\* file, or that is gone when it is stat-ed: every scan completes and hands
\* its changeset to commit, the dropped path is not classified, and every
\* regular file the walk reaches that last_state does not hold is added.
C32_ScanDropsNonRegular ==
    [][(pc = "idle" /\ runs' = runs + 1) =>
          /\ pc' = "commit"
          /\ \A p \in FilePaths : ~is_file(p) => p \notin Classified'
          /\ Visited' \ DOMAIN last_state' \subseteq DOMAIN changeset'.added]_vars

\* The regular files of last_state that the running scan does not reach:
\* excluded, under an excluded directory, or under no include
Uncovered == {p \in DOMAIN last_state : is_file(p) /\ p \notin Visited}

\* C39: a path that is live in the index and is still a regular file on disk,
\* and that is now matched by an exclude pattern, lies under an excluded
\* directory or is under no include, is in changeset.deleted after the scan,
\* and when commit has gone through the index holds a new DELETE row for it.
C39_UncoveredIsDeleted ==
    pc # "idle" =>
        \A p \in Uncovered :
            /\ p \in DOMAIN changeset.deleted
            /\ changeset.deleted[p].action = DELETE
            /\ CommitComplete =>
                  \E r \in RowsOf(p) : r.action = DELETE /\ r.id > last_state[p].id

\* C39 witness: /src/a and /src/b are in the index and unchanged on disk, the
\* run has the include / and the exclude /src, and commit has gone through
C39_Witness ==
    /\ CommitComplete
    /\ config = [includes |-> <<Root>>, excludes |-> <<Src>>]
    /\ Uncovered = {PA, PB}
    /\ \A p \in Uncovered : SameColumns(p)

\* C35: scan is idempotent after a clean commit: when a changeset was
\* committed with no storage error and the tree has not changed since, the
\* next scan with the same includes and excludes returns a changeset whose
\* four mappings are empty.
C35_RescanFindsNothing ==
    [][(CommitComplete /\ runs' = runs + 1) => changeset' = EmptyChangeset]_vars

\* C36: history is stable: once a commit has completed at time C, what
\* State.at(T) returned for a T < C is what it returns after any later scan
\* and commit: the State read before is still a State that State.at(T) gives.
C36_HistoryIsStable ==
    query # NoQuery => query.state \in State_at(Rows, query.timestamp)

=============================================================================
